---- MODULE Spec2Model ----
(***************************************************************************)
(* Checkpoint reconciliation of BaseSolver (src/src/solver/_solver.py):    *)
(* the parameter matcher (_matched_state), the class-weight remapper       *)
(* (map_class_weights), the head adjustment (_adjust_head_parameters),     *)
(* the tuning load (load_tuning_state), the component restore              *)
(* (load_state_dict, load_resume_state) and the order of _setup/train/eval.*)
(*                                                                         *)
(* A tensor is a record [shape, data]: shape is the tuple size() returns   *)
(* (rank 1 or 2), data maps a row index 0..shape[1]-1 to the row, a        *)
(* sequence of the row's elements (one element for a rank-1 tensor). The   *)
(* elements are symbolic values <<tag, row, column>>, so that two tensors  *)
(* of different origin never agree on a row by accident.                   *)
(* A parameter mapping (state_dict) is a function from key strings to      *)
(* tensors.  A call that can raise returns [raised |-> TRUE, exc |-> ..]   *)
(* or [raised |-> FALSE, value |-> ..].                                    *)
(***************************************************************************)
EXTENDS Integers, Sequences, FiniteSets, TLC

VARIABLES
    mode,       \* which harness runs: "solver", "remap" or "match"
    pc,         \* position of the running entry point
    cfg,        \* the configuration (cfg.tuning, cfg.resume, cfg.ema, ...)
    model,      \* the parameters of self.model (empty before _setup sets it)
    wrapped,    \* whether self.model is wrapped by dist_utils.warp_model
    self_dict,  \* the names of self.__dict__ set so far, in insertion order
    comps,      \* the state of the solver's attributes other than the model
    last_epoch, \* self.last_epoch
    tune,       \* what the load_tuning_state call did (its locals)
    trace,      \* the loads and constructions done so far, in order
    rm,         \* remap harness: inputs and results of map_class_weights
    mt          \* match harness: inputs and result of _matched_state

vars == <<mode, pc, cfg, model, wrapped, self_dict, comps, last_epoch, tune, trace, rm, mt>>

(***************************************************************************)
(* self.obj365_ids, _solver.py lines 32-38.                                *)
(***************************************************************************)
obj365_ids ==
    << 0, 46, 5, 58, 114, 55, 116, 65, 21, 40, 176, 127, 249, 24, 56, 139, 92, 78, 99, 96,
       144, 295, 178, 180, 38, 39, 13, 43, 120, 219, 148, 173, 165, 154, 137, 113, 145, 146,
       204, 8, 35, 10, 88, 84, 93, 26, 112, 82, 265, 104, 141, 152, 234, 143, 150, 97, 2,
       50, 25, 75, 98, 153, 37, 73, 115, 132, 106, 61, 163, 134, 277, 81, 133, 18, 94, 30,
       169, 70, 328, 226 >>

\* Compact class ids enumerate(self.obj365_ids) runs over: 0 .. 79.
CocoIds == 0 .. (Len(obj365_ids) - 1)

\* ObjRow without the offset of one.
ObjRowNoOffset(c) == obj365_ids[c + 1]

\* obj_id + 1 for compact id c (the table is a 1-based sequence here).
ObjRow(c) == obj365_ids[c + 1] + 1

(***************************************************************************)
(* Tensors.                                                                *)
(***************************************************************************)
Rows(t) == t.shape[1]

RowShape(t) == Tail(t.shape)

\* Number of elements of one row: 1 for a rank-1 tensor, shape[2] for rank 2.
RowNumel(t) == IF Len(t.shape) = 1 THEN 1 ELSE t.shape[2]

\* A tensor of the given shape whose element (r, j) is <<tag, r, j>>.
MkTensor(tag, shape) ==
    [shape |-> shape,
     data  |-> [r \in 0 .. (shape[1] - 1) |->
                  [j \in 1 .. (IF Len(shape) = 1 THEN 1 ELSE shape[2]) |-> <<tag, r, j>>]]]

\* Outcomes of a call: an exception, a returned value, or a returned None.
Raise(kind) == [raised |-> TRUE, exc |-> kind]

Return(v) == [raised |-> FALSE, none |-> FALSE, value |-> v]

ReturnNone == [raised |-> FALSE, none |-> TRUE]

\* torch.Size is a tuple: a > b compares lexicographically, a proper prefix
\* being the smaller one.
RECURSIVE SizeGT(_, _)
SizeGT(a, b) ==
    IF a = <<>> THEN FALSE
    ELSE IF b = <<>> THEN TRUE
    ELSE IF Head(a) # Head(b) THEN Head(a) > Head(b)
    ELSE SizeGT(Tail(a), Tail(b))

\* Leading dimensions of size 1 are dropped from the value of an indexed
\* assignment before it is copied.
RECURSIVE StripOnes(_)
StripOnes(s) == IF s # <<>> /\ Head(s) = 1 THEN StripOnes(Tail(s)) ELSE s

\* dst[i] = src[j]: IndexError when an index is outside its tensor,
\* RuntimeError when src's row cannot be broadcast to dst's row; otherwise
\* dst with row i replaced (a one-element row fills the whole row).
SetRow(dst, i, src, j) ==
    IF j >= Rows(src) \/ i >= Rows(dst) THEN Raise("IndexError")
    ELSE IF StripOnes(RowShape(src)) = <<>>
         THEN Return([dst EXCEPT !.data[i] = [k \in 1 .. RowNumel(dst) |-> src.data[j][1]]])
    ELSE IF RowShape(src) = RowShape(dst)
         THEN Return([dst EXCEPT !.data[i] = src.data[j]])
    ELSE Raise("RuntimeError")

(***************************************************************************)
(* map_class_weights, lines 235-250.                                       *)
(***************************************************************************)
\* The loops run the compact ids lo..hi in increasing order; the range is
\* split in two halves, the second run on the result of the first, and a
\* raise ends the loop.

\* Lines 244-245: adjusted_tensor[coco_id] = pretrain_tensor[obj_id+1].
RECURSIVE ContractLoop(_, _, _, _)
ContractLoop(adjusted, pretrain_tensor, lo, hi) ==
    IF lo > hi THEN Return(adjusted)
    ELSE IF lo = hi THEN SetRow(adjusted, lo, pretrain_tensor, ObjRow(lo))
    ELSE LET mid == (lo + hi) \div 2
             r   == ContractLoop(adjusted, pretrain_tensor, lo, mid)
         IN  IF r.raised THEN r ELSE ContractLoop(r.value, pretrain_tensor, mid + 1, hi)

\* Lines 247-248: adjusted_tensor[obj_id+1] = pretrain_tensor[coco_id].
RECURSIVE ExpandLoop(_, _, _, _)
ExpandLoop(adjusted, pretrain_tensor, lo, hi) ==
    IF lo > hi THEN Return(adjusted)
    ELSE IF lo = hi THEN SetRow(adjusted, ObjRow(lo), pretrain_tensor, lo)
    ELSE LET mid == (lo + hi) \div 2
             r   == ExpandLoop(adjusted, pretrain_tensor, lo, mid)
         IN  IF r.raised THEN r ELSE ExpandLoop(r.value, pretrain_tensor, mid + 1, hi)

\* map_class_weights with the direction test of line 243 reversed.
MapClassWeightsReversed(cur_tensor, pretrain_tensor) ==
    IF pretrain_tensor.shape = cur_tensor.shape THEN Return(pretrain_tensor)
    ELSE IF SizeGT(cur_tensor.shape, pretrain_tensor.shape)
         THEN ContractLoop(cur_tensor, pretrain_tensor, 0, Len(obj365_ids) - 1)
         ELSE ExpandLoop(cur_tensor, pretrain_tensor, 0, Len(obj365_ids) - 1)

map_class_weights(cur_tensor, pretrain_tensor) ==
    IF pretrain_tensor.shape = cur_tensor.shape THEN Return(pretrain_tensor)
    ELSE IF SizeGT(pretrain_tensor.shape, cur_tensor.shape)
         THEN ContractLoop(cur_tensor, pretrain_tensor, 0, Len(obj365_ids) - 1)
         ELSE ExpandLoop(cur_tensor, pretrain_tensor, 0, Len(obj365_ids) - 1)

(***************************************************************************)
(* _matched_state, lines 189-203.  state.items() is walked in key order;   *)
(* KeyOrder gives the order of the keys of a mapping as a sequence.        *)
(***************************************************************************)
RECURSIVE SetToSeq(_)
SetToSeq(S) ==
    IF S = {} THEN <<>>
    ELSE LET k == CHOOSE x \in S : TRUE IN <<k>> \o SetToSeq(S \ {k})

KeyOrder(sd) == SetToSeq(DOMAIN sd)

RECURSIVE MatchFrom(_, _, _, _)
MatchFrom(state, params, order, acc) ==
    IF order = <<>> THEN acc
    ELSE LET k == Head(order)
             nxt == IF k \in DOMAIN params
                    THEN IF state[k].shape = params[k].shape
                         THEN [acc EXCEPT !.matched_state = acc.matched_state @@ (k :> params[k])]
                         ELSE [acc EXCEPT !.unmatched = Append(acc.unmatched, k)]
                    ELSE [acc EXCEPT !.missed = Append(acc.missed, k)]
         IN  MatchFrom(state, params, Tail(order), nxt)

\* _matched_state without the shape test of line 196.
MatchedStateAnyShape(state, params) ==
    [matched_state |-> [k \in (DOMAIN state) \cap (DOMAIN params) |-> params[k]],
     missed        |-> SetToSeq((DOMAIN state) \ (DOMAIN params)),
     unmatched     |-> <<>>]

_matched_state(state, params) ==
    MatchFrom(state, params, KeyOrder(state),
              [matched_state |-> <<>>, missed |-> <<>>, unmatched |-> <<>>])

(***************************************************************************)
(* _adjust_head_parameters, lines 205-233.  pretrain_state_dict is changed *)
(* in place, so the outcome carries the mapping as the call left it, also  *)
(* when the call raised.                                                   *)
(***************************************************************************)
DenoiseKey == "decoder.denoising_class_embed.weight"

LayerDigits == <<"0", "1", "2", "3", "4", "5", "6", "7">>

RECURSIVE DecHeadNames(_)
DecHeadNames(i) ==
    IF i > Len(LayerDigits) THEN <<>>
    ELSE << "decoder.dec_score_head." \o LayerDigits[i] \o ".weight",
            "decoder.dec_score_head." \o LayerDigits[i] \o ".bias" >> \o DecHeadNames(i + 1)

head_param_names ==
    << "decoder.enc_score_head.weight", "decoder.enc_score_head.bias" >> \o DecHeadNames(1)

HeadNameSet == {head_param_names[i] : i \in DOMAIN head_param_names}

\* The mapping without key k (del d[k]).
DelKey(sd, k) == [x \in (DOMAIN sd) \ {k} |-> sd[x]]

\* The loop of lines 222-231 over the names still to process.
RECURSIVE AdjustFrom(_, _, _, _, _)
AdjustFrom(cur_state_dict, pretrain_state_dict, names, adjusted_params, not_adjusted) ==
    IF names = <<>>
    THEN [raised |-> FALSE, exc |-> "", at |-> "", pretrain |-> pretrain_state_dict,
          adjusted_params |-> adjusted_params, not_adjusted |-> not_adjusted]
    ELSE LET param_name == Head(names) IN
         IF param_name \in DOMAIN cur_state_dict /\ param_name \in DOMAIN pretrain_state_dict
         THEN LET r == map_class_weights(cur_state_dict[param_name],
                                         pretrain_state_dict[param_name])
              IN  IF r.raised
                  THEN [raised |-> TRUE, exc |-> r.exc, at |-> param_name,
                        pretrain |-> pretrain_state_dict,
                        adjusted_params |-> adjusted_params, not_adjusted |-> not_adjusted]
                  ELSE IF ~r.none
                  THEN AdjustFrom(cur_state_dict,
                                  [pretrain_state_dict EXCEPT ![param_name] = r.value],
                                  Tail(names), Append(adjusted_params, param_name),
                                  not_adjusted)
                  ELSE AdjustFrom(cur_state_dict, pretrain_state_dict, Tail(names),
                                  adjusted_params, Append(not_adjusted, param_name))
         ELSE AdjustFrom(cur_state_dict, pretrain_state_dict, Tail(names),
                         adjusted_params, not_adjusted)

\* _adjust_head_parameters without the deletion of line 210.
AdjustKeepingDenoise(cur_state_dict, pretrain_state_dict) ==
    IF DenoiseKey \notin DOMAIN pretrain_state_dict \/ DenoiseKey \notin DOMAIN cur_state_dict
    THEN [raised |-> TRUE, exc |-> "KeyError", at |-> DenoiseKey,
          pretrain |-> pretrain_state_dict,
          adjusted_params |-> <<>>, not_adjusted |-> <<>>]
    ELSE AdjustFrom(cur_state_dict, pretrain_state_dict, head_param_names, <<>>, <<>>)

_adjust_head_parameters(cur_state_dict, pretrain_state_dict) ==
    IF DenoiseKey \notin DOMAIN pretrain_state_dict \/ DenoiseKey \notin DOMAIN cur_state_dict
    THEN [raised |-> TRUE, exc |-> "KeyError", at |-> DenoiseKey,
          pretrain |-> pretrain_state_dict,
          adjusted_params |-> <<>>, not_adjusted |-> <<>>]
    ELSE AdjustFrom(cur_state_dict,
                    IF pretrain_state_dict[DenoiseKey].shape # cur_state_dict[DenoiseKey].shape
                    THEN DelKey(pretrain_state_dict, DenoiseKey)
                    ELSE pretrain_state_dict,
                    head_param_names, <<>>, <<>>)

(***************************************************************************)
(* nn.Module.load_state_dict as lines 140 and 186 use it: tensors of keys  *)
(* the module has are copied in; a tensor of another shape is an error     *)
(* whatever strict is, a missing or unexpected key only when strict. The   *)
(* error is raised after the copies that could be made were made.          *)
(***************************************************************************)
ModuleLoadStateDict(params, sd, strict) ==
    LET both     == (DOMAIN params) \cap (DOMAIN sd)
        mismatch == {k \in both : params[k].shape # sd[k].shape}
        loaded   == [k \in DOMAIN params |->
                        IF k \in both \ mismatch THEN sd[k] ELSE params[k]]
    IN  IF mismatch # {} \/ (strict /\ DOMAIN params # DOMAIN sd)
        THEN [raised |-> TRUE, exc |-> "RuntimeError", value |-> loaded]
        ELSE [raised |-> FALSE, exc |-> "", value |-> loaded]

(***************************************************************************)
(* remove_module_prefix, lines 19-26.                                      *)
(***************************************************************************)
StartsWithModule(k) == Len(k) >= 7 /\ SubSeq(k, 1, 7) = "module."

StripKey(k) == IF StartsWithModule(k) THEN SubSeq(k, 8, Len(k)) ELSE k

RECURSIVE StripFrom(_, _, _)
StripFrom(state_dict, order, new_state_dict) ==
    IF order = <<>> THEN new_state_dict
    ELSE StripFrom(state_dict, Tail(order),
                   (StripKey(Head(order)) :> state_dict[Head(order)]) @@ new_state_dict)

\* remove_module_prefix that strips nothing.
RemovePrefixNoop(state_dict) == state_dict

remove_module_prefix(state_dict) == StripFrom(state_dict, KeyOrder(state_dict), <<>>)

\* model.state_dict() of self.model: the keys of a wrapped model carry the
\* wrapper's "module." prefix (line 148 reads the model without de_parallel).
ModelStateDict(params, isWrapped) ==
    IF isWrapped
    THEN [k \in {"module." \o x : x \in DOMAIN params} |-> params[SubSeq(k, 8, Len(k))]]
    ELSE params

(***************************************************************************)
(* The EMA component (cfg.ema): its construction from the model at line 61 *)
(* and its load_state_dict, called at lines 140 and 149.                   *)
(***************************************************************************)
EmaConstruct(params) == [module |-> params, updates |-> 0]

EmaLoadStateDict(ema, sd) ==
    LET r == ModuleLoadStateDict(ema.module, sd.module, TRUE)
    IN  [raised |-> r.raised, exc |-> r.exc,
         value  |-> [module  |-> r.value,
                     updates |-> IF "updates" \in DOMAIN sd THEN sd.updates ELSE ema.updates]]

(***************************************************************************)
(* load_state_dict, lines 131-152.  self.__dict__ is walked in insertion   *)
(* order; acc carries the solver's components as restored so far.          *)
(***************************************************************************)
SeqRange(q) == {q[i] : i \in DOMAIN q}

\* hasattr(v, 'load_state_dict') for the attribute named k.
HasLoadStateDict(k, cs) == IF k = "model" THEN TRUE ELSE cs[k].stateful

RECURSIVE RestoreFrom(_, _, _, _, _)
RestoreFrom(state, names, hasModel, isWrapped, acc) ==
    IF names = <<>> \/ acc.raised THEN acc
    ELSE LET k == Head(names)
             nxt ==
               IF ~HasLoadStateDict(k, acc.comps) THEN acc
               ELSE IF k \in DOMAIN state
               THEN IF k = "model"
                    THEN LET r == ModuleLoadStateDict(acc.model, state[k], TRUE)
                         IN  [acc EXCEPT !.raised = r.raised, !.model = r.value]
                    ELSE IF k = "ema"
                    THEN LET r == EmaLoadStateDict(acc.comps[k].state, state[k])
                         IN  [acc EXCEPT !.raised = r.raised, !.comps[k].state = r.value]
                    ELSE [acc EXCEPT !.comps[k].state = state[k]]
               ELSE IF k = "ema" /\ hasModel
               THEN LET model_state_dict ==
                            remove_module_prefix(ModelStateDict(acc.model, isWrapped))
                        r == EmaLoadStateDict(acc.comps[k].state,
                                              [module |-> model_state_dict])
                    IN  [acc EXCEPT !.raised = r.raised, !.comps[k].state = r.value]
               ELSE acc
         IN  RestoreFrom(state, Tail(names), hasModel, isWrapped, nxt)

load_state_dict(state, names, params, isWrapped, cs, epoch) ==
    RestoreFrom(state, names, "model" \in SeqRange(names), isWrapped,
                [raised     |-> FALSE,
                 model      |-> params,
                 comps      |-> cs,
                 last_epoch |-> IF "last_epoch" \in DOMAIN state
                                THEN state["last_epoch"] ELSE epoch])

(***************************************************************************)
(* load_tuning_state, lines 164-187, on the parameters of                  *)
(* de_parallel(self.model) and the checkpoint torch.load returned.         *)
(***************************************************************************)
NoTune ==
    [called |-> FALSE, adjust_raised |-> FALSE, exc |-> "", at |-> "",
     passed |-> <<>>, stat |-> <<>>, missed |-> <<>>, unmatched |-> <<>>,
     adjusted_params |-> <<>>, not_adjusted |-> <<>>]

\* SelectSource preferring the plain model weights to the EMA's.
SelectSourcePreferModel(state) ==
    IF "model" \in DOMAIN state THEN Return(state["model"])
    ELSE IF "ema" \in DOMAIN state THEN Return(state["ema"].module)
    ELSE Raise("KeyError")

\* Lines 174-177: the mapping the checkpoint is read for.
SelectSource(state) ==
    IF "ema" \in DOMAIN state THEN Return(state["ema"].module)
    ELSE IF "model" \in DOMAIN state THEN Return(state["model"])
    ELSE Raise("KeyError")

\* Lines 180-184: the mapping handed to _matched_state.  The try branch hands
\* over what _adjust_head_parameters returned, the except branch the
\* pretrain_state_dict object as the failed call left it.
PassedToMatcher(adj) == IF adj.raised THEN adj.pretrain ELSE adj.pretrain

load_tuning_state(params, state) ==
    LET src == SelectSource(state) IN
    IF src.raised THEN [raised |-> TRUE, exc |-> src.exc, model |-> params, tune |-> NoTune]
    ELSE LET adj    == _adjust_head_parameters(params, src.value)
             passed == PassedToMatcher(adj)
             m      == _matched_state(params, passed)
             r      == ModuleLoadStateDict(params, m.matched_state, FALSE)
         IN  [raised |-> r.raised, exc |-> r.exc, model |-> r.value,
              tune   |-> [called |-> TRUE, adjust_raised |-> adj.raised,
                          exc |-> adj.exc, at |-> adj.at,
                          passed |-> passed, stat |-> m.matched_state,
                          missed |-> m.missed, unmatched |-> m.unmatched,
                          adjusted_params |-> adj.adjusted_params,
                          not_adjusted |-> adj.not_adjusted]]

(***************************************************************************)
(* Inputs: the models and checkpoints the solver is run on.  A checkpoint  *)
(* file is named by a descriptor; TorchLoad builds its content.            *)
(***************************************************************************)
CompactRows == 81

SupersetRows == 366

ShortRows == 100

HiddenDim == 2

SavedEpoch == 3

SavedUpdates == 7

HeadWeights == {head_param_names[i] : i \in {j \in DOMAIN head_param_names : j % 2 = 1}}

HeadBiases == HeadNameSet \ HeadWeights

BackboneKey == "backbone.conv1.weight"

AnchorKey == "decoder.anchors"

NewOnlyKey == "decoder.new_only.weight"

PretrainOnlyKey == "decoder.pretrain_only.weight"

OddName == "decoder.dec_score_head.3.weight"

\* The shape of the parameter named k in a model of `rows` classes.
KeyShape(k, rows, denoise_rows) ==
    IF k = DenoiseKey THEN <<denoise_rows, HiddenDim>>
    ELSE IF k \in HeadWeights THEN <<rows, HiddenDim>>
    ELSE IF k \in HeadBiases \/ k = AnchorKey THEN <<rows>>
    ELSE <<2, HiddenDim>>

MkMapping(tag, shapes) == [k \in DOMAIN shapes |-> MkTensor(tag, shapes[k])]

ModelShapes(rows) ==
    [k \in HeadNameSet \cup {DenoiseKey, BackboneKey, AnchorKey, NewOnlyKey} |->
        KeyShape(k, rows, rows + 1)]

\* The parameters cfg.model starts with.
InitialModel(c) == MkMapping("init", ModelShapes(c.rows))

TuningShapes(d) ==
    LET keys == (HeadNameSet \cup {BackboneKey, AnchorKey, PretrainOnlyKey}
                   \cup (IF d.denoise_rows > 0 THEN {DenoiseKey} ELSE {}))
                \ (IF d.odd = "absent" THEN {OddName} ELSE {})
    IN  [k \in keys |->
           IF k = OddName /\ d.odd = "short" THEN <<ShortRows, HiddenDim>>
           ELSE IF k = OddName /\ d.odd = "tail" THEN <<d.rows, HiddenDim + 1>>
           ELSE KeyShape(k, d.rows, d.denoise_rows)]

NoCheckpoint ==
    [kind |-> "none", rows |-> 0, denoise_rows |-> 0, odd |-> "none",
     model |-> FALSE, ema |-> FALSE, others |-> FALSE, epoch |-> FALSE]

\* Tuning checkpoints: of either taxonomy, with the denoising embedding
\* absent or of either size, and with one head parameter (OddName) that is
\* regular, too short for the table, of another row width, or absent.
TuningCases ==
    { d \in [kind : {"tuning"}, rows : {CompactRows, SupersetRows},
             denoise_rows : {0, CompactRows + 1, SupersetRows + 1},
             odd : {"none", "short", "tail", "absent"},
             model : {TRUE}, ema : BOOLEAN, others : {FALSE}, epoch : {TRUE}] :
        d.odd = "none" \/ (d.denoise_rows = d.rows + 1 /\ d.ema) }

ResumeCases(rows) ==
    { [kind |-> "resume", rows |-> r, denoise_rows |-> r + 1, odd |-> "none",
       model |-> m, ema |-> e, others |-> o, epoch |-> o] :
        r \in {rows, CompactRows, SupersetRows},
        m \in BOOLEAN, e \in BOOLEAN, o \in BOOLEAN }

\* torch.load(path) (lines 157-159 and 167-169) for the file d names.
TorchLoad(d) ==
    IF d.kind = "tuning"
    THEN (IF d.model THEN "model" :> MkMapping("ckpt", TuningShapes(d)) ELSE <<>>)
         @@ (IF d.ema
             THEN "ema" :> [module |-> MkMapping("ckpt_ema", TuningShapes(d)),
                            updates |-> SavedUpdates]
             ELSE <<>>)
         @@ (IF d.epoch THEN "last_epoch" :> SavedEpoch ELSE <<>>)
    ELSE (IF d.model THEN "model" :> MkMapping("saved", ModelShapes(d.rows)) ELSE <<>>)
         @@ (IF d.ema
             THEN "ema" :> [module |-> MkMapping("saved_ema", ModelShapes(d.rows)),
                            updates |-> SavedUpdates]
             ELSE <<>>)
         @@ (IF d.others
             THEN [k \in {"criterion", "postprocessor", "scaler", "optimizer",
                          "lr_scheduler", "lr_warmup_scheduler"} |-> "saved"]
             ELSE <<>>)
         @@ (IF d.epoch THEN "last_epoch" :> SavedEpoch ELSE <<>>)

(***************************************************************************)
(* The solver: train() and eval(), lines 39-111, one action per step.      *)
(***************************************************************************)
Stateful(v) == [stateful |-> TRUE, state |-> v]

Stateless == [stateful |-> FALSE, state |-> "-"]

\* The runs that are explored: every environment (entry point, distributed
\* or not, with or without an EMA) without tuning and with a class-remapping
\* tuning checkpoint, each without and with a resume checkpoint; and every
\* tuning checkpoint in a distributed training run with an EMA.
PlainTuning ==
    {d \in TuningCases : d.odd = "none" /\ d.denoise_rows = d.rows + 1
                         /\ d.rows = SupersetRows /\ d.ema}

EnvResumeCases ==
    {d \in ResumeCases(CompactRows) :
        /\ d.others = d.model
        /\ (d.rows = CompactRows \/ (d.ema /\ d.model)) }

SolverConfigs ==
    { [entry |-> en, distributed |-> di, use_ema |-> ue, rows |-> CompactRows,
       tuning |-> t, resume |-> re, last_epoch |-> -1] :
        en \in {"train", "eval"}, di \in BOOLEAN, ue \in BOOLEAN,
        t \in {NoCheckpoint} \cup PlainTuning,
        re \in {NoCheckpoint} \cup EnvResumeCases }
    \cup
    { [entry |-> "train", distributed |-> TRUE, use_ema |-> TRUE, rows |-> r,
       tuning |-> t, resume |-> NoCheckpoint, last_epoch |-> -1] :
        r \in {CompactRows, SupersetRows},
        t \in TuningCases \cup {[d EXCEPT !.model = FALSE, !.ema = FALSE] : d \in PlainTuning} }

NoHarness == [used |-> FALSE]

\* A statement order that builds the EMA before the tuning load.
StepAfterEmaFirst(p, entry) ==
    CASE p = "start"      -> "wrap"
      [] p = "wrap"       -> "criterion"
      [] p = "criterion"  -> "ema"
      [] p = "ema"        -> "tuning"
      [] p = "tuning"     -> "last_epoch"
      [] p = "last_epoch" -> IF entry = "train" THEN "train_components"
                             ELSE "eval_components"
      [] p = "train_components" -> "resume"
      [] p = "eval_components"  -> "resume"
      [] OTHER -> "done"

\* The statement order of _setup (lines 47-74) followed by the rest of
\* train() (lines 82-98) or eval() (lines 103-111): the step after step p.
StepAfter(p, entry) ==
    CASE p = "start"      -> "tuning"
      [] p = "tuning"     -> "wrap"
      [] p = "wrap"       -> "criterion"
      [] p = "criterion"  -> "ema"
      [] p = "ema"        -> "last_epoch"
      [] p = "last_epoch" -> IF entry = "train" THEN "train_components"
                             ELSE "eval_components"
      [] p = "train_components" -> "resume"
      [] p = "eval_components"  -> "resume"
      [] OTHER -> "done"

InitSolver ==
    /\ mode = "solver"
    /\ pc = "start"
    /\ cfg \in SolverConfigs
    /\ model = <<>>
    /\ wrapped = FALSE
    /\ self_dict = <<>>
    /\ comps = <<>>
    /\ last_epoch = -1
    /\ tune = NoTune
    /\ trace = <<>>
    /\ rm = NoHarness
    /\ mt = NoHarness

\* Line 47: self.model = cfg.model.
SetModel ==
    /\ mode = "solver" /\ pc = "start"
    /\ model' = InitialModel(cfg)
    /\ self_dict' = Append(self_dict, "model")
    /\ pc' = StepAfter(pc, cfg.entry)
    /\ UNCHANGED <<mode, cfg, wrapped, comps, last_epoch, tune, trace, rm, mt>>

\* Lines 50-52: if self.cfg.tuning: self.load_tuning_state(self.cfg.tuning).
TuningStep ==
    /\ mode = "solver" /\ pc = "tuning"
    /\ IF cfg.tuning.kind = "none"
       THEN /\ pc' = StepAfter(pc, cfg.entry)
            /\ UNCHANGED <<model, tune, trace>>
       ELSE LET out == load_tuning_state(model, TorchLoad(cfg.tuning)) IN
            /\ pc' = IF out.raised THEN "raised" ELSE StepAfter(pc, cfg.entry)
            /\ model' = out.model
            /\ tune' = out.tune
            /\ trace' = Append(trace, "load_tuning_state")
    /\ UNCHANGED <<mode, cfg, wrapped, self_dict, comps, last_epoch, rm, mt>>

\* Lines 54-56: self.model = dist_utils.warp_model(self.model.to(device), ...).
WrapModel ==
    /\ mode = "solver" /\ pc = "wrap"
    /\ wrapped' = cfg.distributed
    /\ pc' = StepAfter(pc, cfg.entry)
    /\ UNCHANGED <<mode, cfg, model, self_dict, comps, last_epoch, tune, trace, rm, mt>>

\* Lines 58-59: self.criterion and self.postprocessor.
SetCriterion ==
    /\ mode = "solver" /\ pc = "criterion"
    /\ self_dict' = self_dict \o <<"criterion", "postprocessor">>
    /\ comps' = [k \in {"criterion", "postprocessor"} |-> Stateful("built")] @@ comps
    /\ pc' = StepAfter(pc, cfg.entry)
    /\ UNCHANGED <<mode, cfg, model, wrapped, last_epoch, tune, trace, rm, mt>>

\* Lines 61-62: self.ema = self.to(cfg.ema, device); self.scaler = cfg.scaler.
\* cfg.ema builds the EMA from the model as it is now (None without an EMA).
SetEma ==
    /\ mode = "solver" /\ pc = "ema"
    /\ self_dict' = self_dict \o <<"ema", "scaler">>
    /\ comps' = ("ema" :> [stateful |-> cfg.use_ema,
                           state |-> IF cfg.use_ema THEN EmaConstruct(model)
                                     ELSE EmaConstruct(<<>>)])
                @@ ("scaler" :> Stateful("built")) @@ comps
    /\ trace' = IF cfg.use_ema THEN Append(trace, "ema") ELSE trace
    /\ pc' = StepAfter(pc, cfg.entry)
    /\ UNCHANGED <<mode, cfg, model, wrapped, last_epoch, tune, rm, mt>>

\* Lines 64-74: device, last_epoch (= cfg.last_epoch), output_dir, writer.
SetLastEpoch ==
    /\ mode = "solver" /\ pc = "last_epoch"
    /\ last_epoch' = cfg.last_epoch
    /\ self_dict' = self_dict \o <<"device", "last_epoch", "output_dir", "writer">>
    /\ comps' = [k \in {"device", "last_epoch", "output_dir", "writer"} |-> Stateless]
                @@ comps
    /\ pc' = StepAfter(pc, cfg.entry)
    /\ UNCHANGED <<mode, cfg, model, wrapped, tune, trace, rm, mt>>

\* Lines 82-93 of train(): optimizer, schedulers, loaders, evaluator.
TrainComponents ==
    /\ mode = "solver" /\ pc = "train_components"
    /\ self_dict' = self_dict \o <<"optimizer", "lr_scheduler", "lr_warmup_scheduler",
                                   "train_dataloader", "val_dataloader", "evaluator">>
    /\ comps' = [k \in {"optimizer", "lr_scheduler", "lr_warmup_scheduler"} |->
                    Stateful("built")]
                @@ [k \in {"train_dataloader", "val_dataloader", "evaluator"} |-> Stateless]
                @@ comps
    /\ pc' = StepAfter(pc, cfg.entry)
    /\ UNCHANGED <<mode, cfg, model, wrapped, last_epoch, tune, trace, rm, mt>>

\* Lines 103-107 of eval(): loader, evaluator.
EvalComponents ==
    /\ mode = "solver" /\ pc = "eval_components"
    /\ self_dict' = self_dict \o <<"val_dataloader", "evaluator">>
    /\ comps' = [k \in {"val_dataloader", "evaluator"} |-> Stateless] @@ comps
    /\ pc' = StepAfter(pc, cfg.entry)
    /\ UNCHANGED <<mode, cfg, model, wrapped, last_epoch, tune, trace, rm, mt>>

\* Lines 96-98 and 109-111: if self.cfg.resume: self.load_resume_state(...),
\* which is load_state_dict(torch.load(path)) (lines 154-162).
ResumeStep ==
    /\ mode = "solver" /\ pc = "resume"
    /\ IF cfg.resume.kind = "none"
       THEN /\ pc' = StepAfter(pc, cfg.entry)
            /\ UNCHANGED <<model, comps, last_epoch, trace>>
       ELSE LET out == load_state_dict(TorchLoad(cfg.resume), self_dict, model, wrapped,
                                       comps, last_epoch) IN
            /\ pc' = IF out.raised THEN "raised" ELSE StepAfter(pc, cfg.entry)
            /\ model' = out.model
            /\ comps' = out.comps
            /\ last_epoch' = out.last_epoch
            /\ trace' = Append(trace, "load_resume_state")
    /\ UNCHANGED <<mode, cfg, wrapped, self_dict, tune, rm, mt>>

Init == InitSolver

Next ==
    \/ SetModel
    \/ TuningStep
    \/ WrapModel
    \/ SetCriterion
    \/ SetEma
    \/ SetLastEpoch
    \/ TrainComponents
    \/ EvalComponents
    \/ ResumeStep

Spec == Init /\ [][Next]_vars

(***************************************************************************)
(* map_class_weights on its own: a pair of tensors is drawn, remapped, and *)
(* the result is remapped back onto a tensor of a compact taxonomy.        *)
(***************************************************************************)
LongRows == 400

CompactSizes == {CompactRows - 1, CompactRows}

RemapShapes ==
    { <<n>> \o t : n \in CompactSizes \cup {ShortRows, SupersetRows, LongRows},
                   t \in {<<>>, <<1>>, <<HiddenDim>>} }

SolverIdle ==
    /\ pc = "harness"
    /\ cfg = [entry |-> "none"]
    /\ model = <<>>
    /\ wrapped = FALSE
    /\ self_dict = <<>>
    /\ comps = <<>>
    /\ last_epoch = -1
    /\ tune = NoTune
    /\ trace = <<>>

InitRemap ==
    /\ mode = "remap"
    /\ SolverIdle
    /\ mt = NoHarness
    /\ \E cs \in RemapShapes, ps \in RemapShapes :
          rm = [used |-> TRUE, stage |-> "input",
                cur |-> MkTensor("cur", cs), pre |-> MkTensor("pre", ps),
                out |-> ReturnNone, c2 |-> MkTensor("c2", cs), back |-> ReturnNone]

\* adjusted_tensor = self.map_class_weights(cur_tensor, pretrain_tensor).
Remap ==
    /\ mode = "remap" /\ rm.stage = "input"
    /\ rm' = [rm EXCEPT !.stage = "mapped", !.out = map_class_weights(rm.cur, rm.pre)]
    /\ UNCHANGED <<mode, pc, cfg, model, wrapped, self_dict, comps, last_epoch, tune,
                   trace, mt>>

\* The result is mapped again, as the source, onto a compact-taxonomy tensor
\* of its row shape.
RemapBack ==
    /\ mode = "remap" /\ rm.stage = "mapped" /\ ~rm.out.raised
    /\ \E n \in CompactSizes :
          LET target == MkTensor("c2", <<n>> \o RowShape(rm.out.value)) IN
          rm' = [rm EXCEPT !.stage = "back", !.c2 = target,
                           !.back = map_class_weights(target, rm.out.value)]
    /\ UNCHANGED <<mode, pc, cfg, model, wrapped, self_dict, comps, last_epoch, tune,
                   trace, mt>>

NextRemap == Remap \/ RemapBack

SpecRemap == InitRemap /\ [][NextRemap]_vars

(***************************************************************************)
(* _matched_state on its own: two mappings over a small key set are drawn  *)
(* and matched.                                                            *)
(***************************************************************************)
MatchKeys == {BackboneKey, DenoiseKey, "decoder.enc_score_head.bias", PretrainOnlyKey}

MatchShapes == {<<2>>, <<1, HiddenDim>>}

\* Every mapping from a subset of MatchKeys to tensors of MatchShapes.
MatchMappings(tag) ==
    UNION { { MkMapping(tag, sh) : sh \in [ks -> MatchShapes] } : ks \in SUBSET MatchKeys }

InitMatch ==
    /\ mode = "match"
    /\ SolverIdle
    /\ rm = NoHarness
    /\ \E t \in MatchMappings("t"), p \in MatchMappings("s") :
          mt = [used |-> TRUE, stage |-> "input", state |-> t, params |-> p,
                out |-> [matched_state |-> <<>>, missed |-> <<>>, unmatched |-> <<>>]]

\* stat, infos = self._matched_state(state, params).
Match ==
    /\ mode = "match" /\ mt.stage = "input"
    /\ mt' = [mt EXCEPT !.stage = "matched", !.out = _matched_state(mt.state, mt.params)]
    /\ UNCHANGED <<mode, pc, cfg, model, wrapped, self_dict, comps, last_epoch, tune,
                   trace, rm>>

NextMatch == Match

SpecMatch == InitMatch /\ [][NextMatch]_vars

(***************************************************************************)
(* Properties.                                                             *)
(***************************************************************************)
\* Row obj365_ids[c]+1 of the claims, for the compact id c in 0..79.
TableRow(c) == obj365_ids[c + 1] + 1

\* How often x occurs in the sequence q.
Count(q, x) == Cardinality({i \in DOMAIN q : q[i] = x})

\* C2: _matched_state(T, S) returns as matched exactly the keys present in
\* both T and S with identical shapes, each mapped to S's tensor; every other
\* key of T is listed exactly once, under 'missed' when it is absent from S
\* and under 'unmatched' when S has it with another shape; keys only in S
\* appear nowhere.
C2_MatchPartition ==
    (mode = "match" /\ mt.stage = "matched") =>
        LET T == mt.state
            S == mt.params
            same == {k \in (DOMAIN T) \cap (DOMAIN S) : T[k].shape = S[k].shape}
        IN  /\ DOMAIN mt.out.matched_state = same
            /\ \A k \in same : mt.out.matched_state[k] = S[k]
            /\ \A k \in (DOMAIN T) \ same :
                  /\ Count(mt.out.missed, k) = (IF k \in DOMAIN S THEN 0 ELSE 1)
                  /\ Count(mt.out.unmatched, k) = (IF k \in DOMAIN S THEN 1 ELSE 0)
            /\ SeqRange(mt.out.missed) \cup SeqRange(mt.out.unmatched)
                  = (DOMAIN T) \ same

\* C2 witness: a matched pair with a matched, a missed and an unmatched key
\* and a key that only the candidate has.
C2_Witness ==
    /\ mode = "match" /\ mt.stage = "matched"
    /\ DOMAIN mt.out.matched_state # {}
    /\ mt.out.missed # <<>>
    /\ mt.out.unmatched # <<>>
    /\ (DOMAIN mt.params) \ (DOMAIN mt.state) # {}

\* Whether the leading dimensions of the pair are a compact size and the
\* superset size, in either order: the sizes the table was built for.
TableSizes(cur_tensor, pretrain_tensor) ==
    \/ Rows(cur_tensor) \in CompactSizes /\ Rows(pretrain_tensor) = SupersetRows
    \/ Rows(pretrain_tensor) \in CompactSizes /\ Rows(cur_tensor) = SupersetRows

\* C4 (as claimed): for tensors of different shapes whose leading dimensions
\* are not the compact and superset sizes, map_class_weights fails instead of
\* returning a tensor.
C4_RejectsUnknownSizes ==
    (mode = "remap" /\ rm.stage = "mapped"
        /\ rm.cur.shape # rm.pre.shape /\ ~TableSizes(rm.cur, rm.pre))
    => (rm.out.raised \/ rm.out.none)

\* The expand half of C6 holds of the pair (B, C) and the result E.
ExpandedOnto(B, C, E) ==
    /\ E.shape = B.shape
    /\ \A c \in CocoIds : E.data[TableRow(c)] = C.data[c]
    /\ \A r \in (0 .. (Rows(B) - 1)) \ {TableRow(c) : c \in CocoIds} : E.data[r] = B.data[r]

\* C6: for a compact tensor C and a superset tensor B with the same trailing
\* dimensions, E = map_class_weights(B, C) has C[c] at row obj365_ids[c]+1
\* for every c in 0..79 and B's rows elsewhere (row 0 included); and
\* map_class_weights(C2, E), for a compact-shaped C2, has row c equal to C[c]
\* for every c in 0..79 and C2's rows elsewhere.
C6_RoundTrip ==
    (mode = "remap" /\ rm.stage \in {"mapped", "back"}
        /\ Rows(rm.pre) \in CompactSizes /\ Rows(rm.cur) = SupersetRows
        /\ RowShape(rm.pre) = RowShape(rm.cur))
    => /\ ~rm.out.raised /\ ~rm.out.none
       /\ ExpandedOnto(rm.cur, rm.pre, rm.out.value)
       /\ rm.stage = "back" =>
            /\ ~rm.back.raised /\ ~rm.back.none
            /\ rm.back.value.shape = rm.c2.shape
            /\ \A c \in CocoIds : rm.back.value.data[c] = rm.pre.data[c]
            /\ \A r \in (0 .. (Rows(rm.c2) - 1)) \ CocoIds :
                  rm.back.value.data[r] = rm.c2.data[r]

\* C6 witness: a rank-2 compact tensor was expanded onto a superset tensor
\* and contracted back onto a compact tensor that has a row beyond the table.
C6_Witness ==
    /\ mode = "remap" /\ rm.stage = "back"
    /\ Rows(rm.pre) \in CompactSizes /\ Rows(rm.cur) = SupersetRows
    /\ RowShape(rm.pre) = RowShape(rm.cur) /\ RowShape(rm.cur) = <<HiddenDim>>
    /\ Rows(rm.c2) > Len(obj365_ids)
    /\ ~rm.back.raised

(***************************************************************************)
(* Properties of the solver's runs.                                        *)
(***************************************************************************)
\* The mapping load_tuning_state selected from the tuning checkpoint, as read.
Src == SelectSource(TorchLoad(cfg.tuning)).value

\* The source the claims name: the checkpoint's ema 'module' weights when it
\* has an 'ema' entry, its 'model' entry otherwise.
ClaimedSource ==
    LET state == TorchLoad(cfg.tuning)
    IN  IF "ema" \in DOMAIN state THEN state["ema"].module ELSE state["model"]

\* The model's parameters before any load.
Init0 == InitialModel(cfg)

\* load_tuning_state ran to its end.
TuningLoaded == mode = "solver" /\ tune.called

BeforeResume == "load_resume_state" \notin SeqRange(trace)

EncKeys == {"decoder.enc_score_head.weight", "decoder.enc_score_head.bias"}

\* The scenario of C1: an 81-row model head and a 366-row checkpoint head.
C1_Scenario ==
    /\ TuningLoaded /\ BeforeResume
    /\ cfg.rows = CompactRows
    /\ cfg.tuning.rows = SupersetRows
    /\ LET src == Src IN \A k \in EncKeys : k \in DOMAIN src /\ Rows(src[k]) = SupersetRows

\* C1 (as claimed): after the tuning load, row c of the model's encoder score
\* head equals row obj365_ids[c]+1 of the checkpoint's for every c in 0..79,
\* and row 0 of the model's parameter keeps its pre-load value.
C1_Original ==
    C1_Scenario =>
        LET src == Src
            init0 == Init0
        IN  \A k \in EncKeys :
               /\ \A c \in CocoIds : model[k].data[c] = src[k].data[TableRow(c)]
               /\ model[k].data[0] = init0[k].data[0]

\* C1 (amended): when the checkpoint's mapping and the model both hold the
\* denoising class embedding, row c of the model's encoder score head equals
\* row obj365_ids[c]+1 of the checkpoint's for every c in 0..79 (row 0 is
\* overwritten with checkpoint row 1), and the rows from 80 on, which the
\* table does not address, keep their pre-load values.
C1_TuningRemapsEncHead ==
    C1_Scenario =>
        LET src == Src
            init0 == Init0
        IN  (DenoiseKey \in DOMAIN src /\ DenoiseKey \in DOMAIN init0) =>
            \A k \in EncKeys :
               /\ model[k].shape = init0[k].shape
               /\ \A c \in CocoIds : model[k].data[c] = src[k].data[TableRow(c)]
               /\ \A r \in (0 .. (Rows(model[k]) - 1)) \ CocoIds :
                     model[k].data[r] = init0[k].data[r]

\* C1 witness: the scenario, loaded, with the denoising embedding present;
\* row 0 of the bias now holds row 1 of the checkpoint's bias.
C1_Witness ==
    /\ C1_Scenario
    /\ ~tune.adjust_raised
    /\ LET src == Src
       IN  /\ DenoiseKey \in DOMAIN src
           /\ model["decoder.enc_score_head.bias"].data[0]
                 = src["decoder.enc_score_head.bias"].data[1]

\* C3 (as claimed): when adjusting the head parameters raised, the matcher
\* is run on the mapping exactly as it was read from the checkpoint.
C3_FallbackUnadjusted ==
    (TuningLoaded /\ tune.adjust_raised) => tune.passed = ClaimedSource

\* The denoising embedding is in the model and in the selected checkpoint
\* mapping, with different shapes.
DenoiseDiffers ==
    /\ TuningLoaded
    /\ LET src == Src
           init0 == Init0
       IN  /\ DenoiseKey \in DOMAIN init0 /\ DenoiseKey \in DOMAIN src
           /\ init0[DenoiseKey].shape # src[DenoiseKey].shape

\* C7: when the model and the selected checkpoint mapping both hold
\* decoder.denoising_class_embed.weight with different shapes, the mapping
\* passed to the matcher does not hold the key, the key is reported missed
\* and not unmatched, and the model keeps its pre-load value for it.
C7_DenoiseDropped ==
    DenoiseDiffers
    => /\ DenoiseKey \notin DOMAIN tune.passed
       /\ DenoiseKey \notin DOMAIN tune.stat
       /\ Count(tune.missed, DenoiseKey) = 1
       /\ Count(tune.unmatched, DenoiseKey) = 0
       /\ BeforeResume => model[DenoiseKey] = Init0[DenoiseKey]

\* C7 witness: the key differed in shape, and the head adjustment raised
\* after the key had been deleted.
C7_Witness ==
    /\ DenoiseDiffers
    /\ tune.adjust_raised
    /\ pc = "wrap"

\* C9 (as claimed): a head parameter the remapper cannot reconcile is left
\* untouched and reported as not adjusted, and every other head parameter
\* that can be remapped is overwritten with its remapped tensor.
C9_FailureIsolated ==
    TuningLoaded =>
        LET src == Src
            init0 == Init0
        IN  (DenoiseKey \in DOMAIN init0 /\ DenoiseKey \in DOMAIN src) =>
            \A n \in HeadNameSet \cap (DOMAIN init0) \cap (DOMAIN src) :
               LET r == map_class_weights(init0[n], src[n])
               IN  IF r.raised
                   THEN /\ tune.passed[n] = src[n]
                        /\ n \in SeqRange(tune.not_adjusted)
                   ELSE /\ tune.passed[n] = r.value
                        /\ n \in SeqRange(tune.adjusted_params)

\* C5: restoring a checkpoint without an 'ema' entry onto a solver that has a
\* model and an EMA leaves the EMA's parameters equal to the model's as they
\* stand after the restore, also when the checkpoint's 'model' entry was
\* restored in the same call.
C5_EmaFollowsModel ==
    (mode = "solver" /\ ~BeforeResume /\ cfg.use_ema /\ ~cfg.resume.ema
        /\ (cfg.resume.model => cfg.resume.rows = cfg.rows))
    => /\ pc = "done"
       /\ comps["ema"].state.module = model

\* C5 witness: a distributed run restored the model from the checkpoint in
\* the call that initialised the EMA from it.
C5_Witness ==
    /\ mode = "solver" /\ ~BeforeResume /\ cfg.use_ema /\ ~cfg.resume.ema
    /\ cfg.resume.model /\ cfg.distributed /\ wrapped
    /\ model = TorchLoad(cfg.resume)["model"]
    /\ comps["ema"].state.module = model

\* The position of x in the sequence q.
Index(q, x) == CHOOSE i \in DOMAIN q : q[i] = x

\* C8: with a tuning checkpoint configured, load_tuning_state is over before
\* the EMA is constructed, the EMA starts from the tuned model weights, and a
\* resume load comes after both.
C8_TuningBeforeEma ==
    mode = "solver" =>
       /\ ("ema" \in SeqRange(trace) /\ cfg.tuning.kind # "none") =>
             /\ "load_tuning_state" \in SeqRange(trace)
             /\ Index(trace, "load_tuning_state") < Index(trace, "ema")
       /\ ("ema" \in SeqRange(trace) /\ BeforeResume) =>
             /\ comps["ema"].state.module = model
             /\ cfg.tuning.kind # "none" =>
                   /\ tune.called
                   /\ \A k \in DOMAIN tune.stat :
                         comps["ema"].state.module[k] = tune.stat[k]
       /\ ~BeforeResume =>
             /\ Index(trace, "load_resume_state") = Len(trace)
             /\ cfg.use_ema => "ema" \in SeqRange(trace)
             /\ cfg.tuning.kind # "none" => "load_tuning_state" \in SeqRange(trace)

\* C8 witness: a run with a tuning checkpoint built its EMA and then resumed.
C8_Witness ==
    /\ mode = "solver" /\ pc = "done"
    /\ trace = <<"load_tuning_state", "ema", "load_resume_state">>
    /\ DOMAIN tune.stat # {}

\* C10 (as claimed): every key of the matched set is overwritten with the
\* selected source's value.
C10_MatchedHoldSource ==
    (TuningLoaded /\ BeforeResume) =>
        LET src == ClaimedSource
        IN  \A k \in DOMAIN tune.stat : model[k] = src[k]

\* The model after the tuning load: a matched key holds the matcher's tensor,
\* which is the selected source's tensor unless the key is a head parameter
\* of another shape, and then the tensor map_class_weights built from it;
\* every other key, reported missed or unmatched, holds its pre-load value.
C10_Loaded ==
    (TuningLoaded /\ BeforeResume) =>
        LET src == ClaimedSource
            init0 == Init0
        IN  /\ DOMAIN model = DOMAIN init0
            /\ SeqRange(tune.missed) \cup SeqRange(tune.unmatched)
                  = (DOMAIN model) \ (DOMAIN tune.stat)
            /\ \A k \in DOMAIN model :
                  IF k \in DOMAIN tune.stat
                  THEN /\ model[k] = tune.stat[k]
                       /\ IF k \in HeadNameSet /\ src[k].shape # init0[k].shape
                          THEN model[k] = map_class_weights(init0[k], src[k]).value
                          ELSE model[k] = src[k]
                  ELSE model[k] = init0[k]

\* load_tuning_state leaves last_epoch and every component but the model alone.
C10_Frame ==
    (mode = "solver" /\ pc = "tuning") =>
        UNCHANGED <<last_epoch, comps, self_dict, wrapped, cfg>>

\* C10 (amended): load_tuning_state changes nothing but the model, and in the
\* model only the matched keys, as C10_Loaded states.
C10_TuningLoadsOnlyMatched == [][C10_Frame]_vars /\ []C10_Loaded

\* C10 witness: a load from a checkpoint with an 'ema' entry that overwrote a
\* remapped head parameter and left a missed and an unmatched key alone.
C10_Witness ==
    /\ TuningLoaded /\ BeforeResume
    /\ cfg.tuning.ema
    /\ tune.missed # <<>> /\ tune.unmatched # <<>>
    /\ "decoder.enc_score_head.weight" \in DOMAIN tune.stat
    /\ cfg.tuning.rows # cfg.rows

====
